---- MODULE Spec2Model ----
(***************************************************************************)
(* reflection.py: the URL parameter expander (check_reflection and         *)
(* save_reflected_url) and the work distributor (process_urls).            *)
(*                                                                         *)
(* A string is a sequence of tokens.  A token is one character, except     *)
(* "P", which stands for the nine characters {payload}, and the percent-   *)
(* escapes "%3D" (of '=') and "%61" (of 'a').  A URL is a record           *)
(* [base, query]:                                                          *)
(* base is everything urlparse puts in scheme, netloc and path (kept as    *)
(* they are by _replace(query=...) and urlunparse), query is the text      *)
(* after '?'.  A URL without '?' and a URL ending in '?' both have the     *)
(* empty query.  The base BadBase stands for a URL on which urlparse       *)
(* raises ValueError (an unbalanced '[' in the netloc).                    *)
(***************************************************************************)
EXTENDS Naturals, Sequences, FiniteSets, Bags, TLC

VARIABLES urls, threads, total_urls, processed_urls, output_file, log,
          mpc, i, j, thread_list, wk, summary

vars == <<urls, threads, total_urls, processed_urls, output_file, log,
          mpc, i, j, thread_list, wk, summary>>

(***************************************************************************)
(* Bounds of the model.                                                    *)
(***************************************************************************)
MaxSegs == 3

MaxUrls == 4

MaxThreads == 2

MaxList == 5

MaxWorkers == 3

(***************************************************************************)
(* Strings.                                                                *)
(***************************************************************************)
PAYLOAD == <<"P">>

EMPTY == << >>

Min(S) == CHOOSE x \in S : \A y \in S : x <= y

Max2(x, y) == IF x >= y THEN x ELSE y

Min2(x, y) == IF x <= y THEN x ELSE y

\* str.split(sep): always at least one piece
RECURSIVE Split(_, _)
Split(s, sep) ==
    LET at == {n \in 1..Len(s) : s[n] = sep}
    IN  IF at = {} THEN <<s>>
        ELSE <<SubSeq(s, 1, Min(at) - 1)>>
                 \o Split(SubSeq(s, Min(at) + 1, Len(s)), sep)

\* str.split(sep, 1)
SplitOnce(s, sep) ==
    LET at == {n \in 1..Len(s) : s[n] = sep}
    IN  IF at = {} THEN <<s>>
        ELSE <<SubSeq(s, 1, Min(at) - 1), SubSeq(s, Min(at) + 1, Len(s))>>

\* sep.join(parts)
RECURSIVE Join(_, _)
Join(parts, sep) ==
    IF parts = << >> THEN EMPTY
    ELSE IF Len(parts) = 1 THEN parts[1]
    ELSE parts[1] \o <<sep>> \o Join(Tail(parts), sep)

\* s.replace('+', ' ')
ReplacePlus(s) == [n \in 1..Len(s) |-> IF s[n] = "+" THEN " " ELSE s[n]]

\* urllib.parse.unquote on the model's tokens: the escapes are decoded
unquote(s) ==
    [n \in 1..Len(s) |-> IF s[n] = "%3D" THEN "="
                         ELSE IF s[n] = "%61" THEN "a"
                         ELSE s[n]]

(***************************************************************************)
(* Python dicts keep insertion order: a dict is a sequence of entries      *)
(* [key, val] with distinct keys.  A value of query_params is a list of    *)
(* strings (from parse_qs) or a string (from the blank-parameter loop).    *)
(***************************************************************************)
ListVal(items) == [isList |-> TRUE, items |-> items, str |-> EMPTY]

StrVal(s) == [isList |-> FALSE, items |-> << >>, str |-> s]

HasKey(d, k) == \E n \in 1..Len(d) : d[n].key = k

KeyIndex(d, k) == CHOOSE n \in 1..Len(d) : d[n].key = k

DictGet(d, k) == d[KeyIndex(d, k)].val

\* d[k] = v
DictSet(d, k, v) ==
    IF HasKey(d, k)
    THEN [d EXCEPT ![KeyIndex(d, k)] = [key |-> k, val |-> v]]
    ELSE Append(d, [key |-> k, val |-> v])

(***************************************************************************)
(* urllib.parse.parse_qsl and parse_qs with their defaults                 *)
(* (keep_blank_values=False, strict_parsing=False, separator='&').         *)
(***************************************************************************)
RECURSIVE parse_qsl_args(_)
parse_qsl_args(query_args) ==
    IF query_args = << >> THEN << >>
    ELSE LET name_value == Head(query_args)
             nv == SplitOnce(name_value, "=")
             rest == parse_qsl_args(Tail(query_args))
         IN  IF name_value = EMPTY THEN rest
             ELSE IF Len(nv) # 2 THEN rest
             ELSE IF Len(nv[2]) > 0
                  THEN <<[name |-> unquote(ReplacePlus(nv[1])),
                          value |-> unquote(ReplacePlus(nv[2]))]>> \o rest
                  ELSE rest

parse_qsl(qs) == parse_qsl_args(IF qs # EMPTY THEN Split(qs, "&") ELSE << >>)

RECURSIVE parse_qs_pairs(_, _)
parse_qs_pairs(pairs, parsed_result) ==
    IF pairs = << >> THEN parsed_result
    ELSE LET p == Head(pairs)
         IN  parse_qs_pairs(Tail(pairs),
                 IF HasKey(parsed_result, p.name)
                 THEN DictSet(parsed_result, p.name,
                          ListVal(Append(DictGet(parsed_result, p.name).items, p.value)))
                 ELSE DictSet(parsed_result, p.name, ListVal(<<p.value>>)))

parse_qs(qs) == parse_qs_pairs(parse_qsl(qs), << >>)

(***************************************************************************)
(* check_reflection, lines 57-63.                                          *)
(***************************************************************************)
\* a faulty variant of BlankLoop: the loop of lines 58-61 left out
BlankLoopSkipped(params, query_params) == query_params

\* for param in parsed_url.query.split("&"): ... query_params[key_value[0]] = ""
RECURSIVE BlankLoop(_, _)
BlankLoop(params, query_params) ==
    IF params = << >> THEN query_params
    ELSE LET key_value == Split(Head(params), "=")
         IN  BlankLoop(Tail(params),
                 IF Len(key_value) = 1 \/ key_value[2] = EMPTY
                 THEN DictSet(query_params, key_value[1], StrVal(EMPTY))
                 ELSE query_params)

\* a faulty variant of Flatten: the last element of the list, not the first
FlattenLast(v) == IF v.isList THEN v.items[Len(v.items)] ELSE v.str

\* v[0] if isinstance(v, list) else v
Flatten(v) == IF v.isList THEN v.items[1] ELSE v.str

\* query_params after the loop of lines 58-61
QueryParams(query) == BlankLoop(Split(query, "&"), parse_qs(query))

\* original_params: name -> string, in the dict's order
OriginalParams(query) ==
    LET query_params == QueryParams(query)
    IN  [n \in 1..Len(query_params) |->
            [key |-> query_params[n].key, val |-> Flatten(query_params[n].val)]]

\* modified_params = original_params.copy(); modified_params[param_name] = "{payload}"
ModifiedParams(original_params, param_name) ==
    DictSet(original_params, param_name, PAYLOAD)

(***************************************************************************)
(* URLs and urlparse.                                                      *)
(***************************************************************************)
GoodBase == "http://example.com/page"

BadBase == "http://[example.com/page"

\* urlparse(url) raises ValueError("Invalid IPv6 URL")
ParseFails(url) == url.base = BadBase

(***************************************************************************)
(* save_reflected_url: the line appended to the output file.  Every value  *)
(* of temp_params is a string here (original_params is flattened), so the  *)
(* isinstance(v, list) branch of line 41 is never taken.                   *)
(***************************************************************************)
PayloadUrl(original_url, param_name, modified_params) ==
    LET temp_params == DictSet(modified_params, param_name, PAYLOAD)
        query == Join([n \in 1..Len(temp_params) |->
                          temp_params[n].key \o <<"=">> \o temp_params[n].val], "&")
    IN  [base |-> original_url.base, query |-> query]

\* the lines check_reflection writes for one URL, in order
ExpandLines(url) ==
    IF ParseFails(url) THEN << >>
    ELSE LET original_params == OriginalParams(url.query)
         IN  [n \in 1..Len(original_params) |->
                 PayloadUrl(url, original_params[n].key,
                            ModifiedParams(original_params, original_params[n].key))]

(***************************************************************************)
(* process_urls: the chunks.                                               *)
(***************************************************************************)
\* a faulty variant of chunk_size: one worker too many in the division
chunk_size_off == Max2(1, Len(urls) \div (threads + 1))

\* chunk_size = max(1, len(urls) // threads)
chunk_size == Max2(1, Len(urls) \div threads)

\* a faulty variant of Slice: one element too long (urls[i:i + chunk_size + 1])
SliceOverlap(lo) ==
    [n \in 1..(Min2(lo + chunk_size, Len(urls)) - lo + 1) |-> lo + n - 1]

\* a faulty variant of Slice: the chunk in reverse order
SliceReversed(lo) ==
    [n \in 1..(Min2(lo + chunk_size - 1, Len(urls)) - lo + 1) |->
        Min2(lo + chunk_size - 1, Len(urls)) - n + 1]

\* urls[i:i + chunk_size], as the positions (from 1) of its elements
Slice(lo) ==
    [n \in 1..(Min2(lo + chunk_size - 1, Len(urls)) - lo + 1) |-> lo + n - 1]

(***************************************************************************)
(* State.  wk[t] is thread t: pc is its place in worker/check_reflection,  *)
(* n the index in its sublist, params the original_params of the URL in    *)
(* hand, k the next parameter of the loop of line 65, reg the value of     *)
(* processed_urls read by line 74.  log[m] records which position of urls  *)
(* and which param_name line m of output_file was written for.             *)
(***************************************************************************)
NewWorker == [pc |-> "url", n |-> 1, params |-> << >>, k |-> 1, reg |-> 0]

Threads == 1..Len(thread_list)

\* the position in urls of the URL thread t has in hand
Pos(t) == thread_list[t][wk[t].n]

Url(t) == urls[Pos(t)]

InitCommon ==
    /\ total_urls = 0
    /\ processed_urls = 0
    /\ output_file = << >>
    /\ log = << >>
    /\ mpc = "begin"
    /\ i = 1
    /\ j = 1
    /\ thread_list = << >>
    /\ wk = << >>
    /\ summary = [printed |-> FALSE, total |-> 0, processed |-> 0]

\* process_urls, lines 77-85
Begin ==
    /\ mpc = "begin"
    /\ total_urls' = Len(urls)
    /\ mpc' = "spawn"
    /\ UNCHANGED <<urls, threads, processed_urls, output_file, log, i, j,
                   thread_list, wk, summary>>

\* one turn of the loop of lines 87-90: a thread is created and started
Spawn ==
    /\ mpc = "spawn"
    /\ i <= Len(urls)
    /\ thread_list' = Append(thread_list, Slice(i))
    /\ wk' = Append(wk, NewWorker)
    /\ i' = i + chunk_size
    /\ UNCHANGED <<urls, threads, total_urls, processed_urls, output_file, log,
                   mpc, j, summary>>

\* the loop of lines 87-90 ends
SpawnDone ==
    /\ mpc = "spawn"
    /\ i > Len(urls)
    /\ mpc' = "join"
    /\ UNCHANGED <<urls, threads, total_urls, processed_urls, output_file, log,
                   i, j, thread_list, wk, summary>>

\* one turn of the loop of lines 92-93: t.join() returns once t has ended
Join1 ==
    /\ mpc = "join"
    /\ j <= Len(thread_list)
    /\ wk[j].pc = "ended"
    /\ j' = j + 1
    /\ UNCHANGED <<urls, threads, total_urls, processed_urls, output_file, log,
                   mpc, i, thread_list, wk, summary>>

\* line 95: the summary
PrintSummary ==
    /\ mpc = "join"
    /\ j > Len(thread_list)
    /\ summary' = [printed |-> TRUE, total |-> total_urls, processed |-> processed_urls]
    /\ mpc' = "done"
    /\ UNCHANGED <<urls, threads, total_urls, processed_urls, output_file, log,
                   i, j, thread_list, wk>>

\* check_reflection, lines 53-63: the URL is parsed; an exception goes to finally
Parse(t) ==
    /\ wk[t].pc = "url"
    /\ IF ParseFails(Url(t))
       THEN wk' = [wk EXCEPT ![t].pc = "load"]
       ELSE wk' = [wk EXCEPT ![t].params = OriginalParams(Url(t).query),
                             ![t].k = 1,
                             ![t].pc = IF OriginalParams(Url(t).query) = << >>
                                       THEN "load" ELSE "save"]
    /\ UNCHANGED <<urls, threads, total_urls, processed_urls, output_file, log,
                   mpc, i, j, thread_list, summary>>

\* one turn of the loop of lines 65-68: save_reflected_url appends one line.
\* The file is opened for append, written once and closed: the short line
\* reaches the file in one write, so the append is one step.
Save(t) ==
    /\ wk[t].pc = "save"
    /\ LET param_name == wk[t].params[wk[t].k].key
           modified_params == ModifiedParams(wk[t].params, param_name)
       IN  /\ output_file' = Append(output_file,
                                    PayloadUrl(Url(t), param_name, modified_params))
           /\ log' = Append(log, [pos |-> Pos(t), param |-> param_name])
    /\ wk' = [wk EXCEPT ![t].k = @ + 1,
                        ![t].pc = IF wk[t].k = Len(wk[t].params) THEN "load" ELSE "save"]
    /\ UNCHANGED <<urls, threads, total_urls, processed_urls, mpc, i, j,
                   thread_list, summary>>

\* line 74, first half: processed_urls is read
Load(t) ==
    /\ wk[t].pc = "load"
    /\ wk' = [wk EXCEPT ![t].reg = processed_urls, ![t].pc = "store"]
    /\ UNCHANGED <<urls, threads, total_urls, processed_urls, output_file, log,
                   mpc, i, j, thread_list, summary>>

\* line 74, second half: the sum is written back; then the next URL of the
\* sublist (line 81), or the thread ends
Store(t) ==
    /\ wk[t].pc = "store"
    /\ processed_urls' = wk[t].reg + 1
    /\ wk' = [wk EXCEPT ![t].n = @ + 1,
                        ![t].params = << >>,
                        ![t].k = 1,
                        ![t].reg = 0,
                        ![t].pc = IF wk[t].n = Len(thread_list[t])
                                  THEN "ended" ELSE "url"]
    /\ UNCHANGED <<urls, threads, total_urls, output_file, log, mpc, i, j,
                   thread_list, summary>>

Next ==
    \/ Begin
    \/ Spawn
    \/ SpawnDone
    \/ Join1
    \/ PrintSummary
    \/ \E t \in Threads : Parse(t)
    \/ \E t \in Threads : Save(t)
    \/ \E t \in Threads : Load(t)
    \/ \E t \in Threads : Store(t)

(***************************************************************************)
(* Inputs.                                                                 *)
(***************************************************************************)
\* the segments queries are made of: the empty segment, bare names, empty
\* values, values, {payload} as a value, a second '=', '+' in a name, an
\* empty name, an escaped '=' in a value, an escaped name
Segments ==
    { EMPTY,
      <<"a">>, <<"a", "=">>, <<"a", "=", "1">>, <<"a", "=", "P">>,
      <<"a", "=", "=", "1">>,
      <<"b", "=", "1">>, <<"b", "=", "%3D">>,
      <<"a", "+">>, <<"a", "+", "=", "1">>,
      <<"=", "1">>,
      <<"%61", "=", "1">> }

RECURSIVE SegLists(_)
SegLists(len) ==
    IF len = 0 THEN { << >> }
    ELSE LET shorter == SegLists(len - 1)
         IN  shorter \cup { Append(l, s) : l \in {x \in shorter : Len(x) = len - 1},
                                           s \in Segments }

\* every query of at most MaxSegs segments ("" is the query of no segment
\* and of one empty segment alike)
Queries == { Join(l, "&") : l \in SegLists(MaxSegs) }

ExpanderUrls ==
    { [base |-> GoodBase, query |-> q] : q \in Queries }
        \cup { [base |-> BadBase, query |-> <<"a", "=", "1">>] }

\* one URL, one worker: the expander alone
InitExpander ==
    /\ urls \in { <<u>> : u \in ExpanderUrls }
    /\ threads = 1
    /\ InitCommon

SpecExpander == InitExpander /\ [][Next]_vars

ConcUrls ==
    { [base |-> GoodBase, query |-> <<"a">>],
      [base |-> BadBase, query |-> <<"a", "=", "1">>] }

RECURSIVE UrlLists(_, _)
UrlLists(S, len) ==
    IF len = 0 THEN { << >> }
    ELSE LET shorter == UrlLists(S, len - 1)
         IN  shorter \cup { Append(l, u) : l \in {x \in shorter : Len(x) = len - 1},
                                           u \in S }

\* any list of at most MaxUrls URLs, any worker count
Init ==
    /\ urls \in UrlLists(ConcUrls, MaxUrls)
    /\ threads \in 1..MaxThreads
    /\ InitCommon

Spec == Init /\ [][Next]_vars

\* lists of up to MaxList URLs of which only the first may produce lines
DistUrls(len) ==
    { [n \in 1..len |-> IF n = 1 THEN u
                        ELSE [base |-> BadBase, query |-> <<"a", "=", "1">>]] :
          u \in { [base |-> GoodBase, query |-> <<"a">>],
                  [base |-> BadBase, query |-> <<"a", "=", "1">>] } }

InitDistributor ==
    /\ urls \in UNION { DistUrls(len) : len \in 0..MaxList }
    /\ threads \in 1..MaxWorkers
    /\ InitCommon

SpecDistributor == InitDistributor /\ [][Next]_vars

(***************************************************************************)
(* What the claims speak of: the pieces of a query string as a reader of   *)
(* the URL sees them, and the lines of the output file by the position of  *)
(* the URL they were written for.                                          *)
(***************************************************************************)
Pieces(url) == Split(url.query, "&")

PieceSet(url) == { Pieces(url)[n] : n \in 1..Len(Pieces(url)) }

PieceName(s) == SplitOnce(s, "=")[1]

PieceValue(s) == IF Len(SplitOnce(s, "=")) = 2 THEN SplitOnce(s, "=")[2] ELSE EMPTY

\* a text as URL decoding gives it
Decoded(s) == unquote(ReplacePlus(s))

\* the distinct parameter names of a URL: the names of its non-empty pieces
NamesOf(url) == { PieceName(s) : s \in PieceSet(url) \ {EMPTY} }

\* the values a name is given in the URL, decoded
ValuesOf(url, nm) ==
    { Decoded(PieceValue(s)) :
          s \in { x \in PieceSet(url) \ {EMPTY} : Decoded(PieceName(x)) = Decoded(nm) } }

Positions == 1..Len(urls)

Parsed(p) == ~ParseFails(urls[p])

\* the lines of the output file written for position p of urls
LinesOf(p) == { m \in 1..Len(log) : log[m].pos = p }

LinePieces(m) == { Split(output_file[m].query, "&")[n] :
                       n \in 1..Len(Split(output_file[m].query, "&")) }

\* the lines written for position p, in the order of the file
RECURSIVE LinesInOrder(_, _)
LinesInOrder(p, upto) ==
    IF upto = 0 THEN << >>
    ELSE IF log[upto].pos = p
         THEN Append(LinesInOrder(p, upto - 1), output_file[upto])
         ELSE LinesInOrder(p, upto - 1)

\* C1: a URL whose query string is empty adds no line to the output file,
\* and is still counted as processed.
C1_EmptyQueryNoLines ==
    /\ \A p \in Positions : (Parsed(p) /\ urls[p].query = EMPTY) => LinesOf(p) = {}
    /\ mpc = "done" => processed_urls = Len(urls)

\* C2: a URL that parses and has k >= 1 distinct parameter names gets exactly
\* k lines, one per name; each line keeps the URL's base and its set of names,
\* gives the targeted name the value {payload} and every other name a value it
\* has in the URL.  Names and values are compared as URL decoding gives them.
C2_OneLinePerName ==
    mpc = "done" =>
        \A p \in Positions :
            (Parsed(p) /\ NamesOf(urls[p]) # {}) =>
                /\ Cardinality(LinesOf(p)) = Cardinality(NamesOf(urls[p]))
                /\ \A nm \in NamesOf(urls[p]) :
                       Cardinality({ m \in LinesOf(p) :
                                         Decoded(log[m].param) = Decoded(nm) }) = 1
                /\ \A m \in LinesOf(p) :
                       /\ output_file[m].base = urls[p].base
                       /\ { Decoded(PieceName(s)) : s \in LinePieces(m) }
                              = { Decoded(nm) : nm \in NamesOf(urls[p]) }
                       /\ \A s \in LinePieces(m) :
                              IF PieceName(s) = log[m].param
                              THEN PieceValue(s) = PAYLOAD
                              ELSE Decoded(PieceValue(s)) \in ValuesOf(urls[p], PieceName(s))

(***************************************************************************)
(* C3.  The parameter count of a URL is the size of the parameter map      *)
(* check_reflection builds for it.                                         *)
(***************************************************************************)
Holders(p) ==
    { <<t, n>> \in (1..Len(thread_list)) \X Positions :
          n <= Len(thread_list[t]) /\ thread_list[t][n] = p }

Count(seq, x) == Cardinality({ n \in 1..Len(seq) : seq[n] = x })

RECURSIVE ExpectedCount(_, _)
ExpectedCount(x, upto) ==
    IF upto = 0 THEN 0
    ELSE Count(ExpandLines(urls[upto]), x) + ExpectedCount(x, upto - 1)

RECURSIVE ParameterCounts(_)
ParameterCounts(upto) ==
    IF upto = 0 THEN 0
    ELSE (IF Parsed(upto) THEN Len(OriginalParams(urls[upto].query)) ELSE 0)
             + ParameterCounts(upto - 1)

AllExpectedLines ==
    UNION { { ExpandLines(urls[p])[n] : n \in 1..Len(ExpandLines(urls[p])) } :
                p \in Positions }

\* C3: when process_urls returns, every position of the list has been expanded
\* by exactly one worker exactly once: the chunks are disjoint and cover the
\* list, the lines written for a position are the lines of its URL, the file
\* has gained the sum of the parsed URLs' parameter counts in lines, and it
\* holds each line as often as the URLs give it one by one, whatever the
\* worker count and the interleaving.
C3_EveryUrlExpandedOnce ==
    /\ mpc \in {"join", "done"} => \A p \in Positions : Cardinality(Holders(p)) = 1
    /\ mpc = "done" =>
           /\ \A p \in Positions : LinesInOrder(p, Len(log)) = ExpandLines(urls[p])
           /\ Len(output_file) = ParameterCounts(Len(urls))
           /\ \A x \in AllExpectedLines \cup { output_file[m] : m \in 1..Len(output_file) } :
                  Count(output_file, x) = ExpectedCount(x, Len(urls))

\* C3 witness: several workers have run, and their lines are not in the order
\* of the list
C3_Witness ==
    /\ mpc = "done"
    /\ Len(thread_list) >= 2
    /\ \E m, n \in 1..Len(log) : m < n /\ log[m].pos > log[n].pos

\* C4: when process_urls prints its summary, the processed count equals the
\* total count, the number of input URLs.
C4_ProcessedEqualsTotal ==
    summary.printed =>
        /\ summary.total = Len(urls)
        /\ summary.processed = summary.total

\* the part of C5 about lines and about the other URLs: a failed URL adds no
\* line, and in the end every URL that parses has all its lines
FailureIsContained ==
    /\ \A p \in Positions : ~Parsed(p) => LinesOf(p) = {}
    /\ mpc = "done" =>
           \A p \in Positions : Parsed(p) => LinesInOrder(p, Len(log)) = ExpandLines(urls[p])

\* the steps of thread t on a URL that fails: from the parse to finally with
\* no line written; the write of line 74 adds one to the count, and the
\* thread goes on with the next URL of its chunk
FailedStep(t) ==
    (wk[t].pc # "ended" /\ ParseFails(Url(t)) /\ wk'[t] # wk[t]) =>
        /\ wk[t].pc = "url" => (wk'[t].pc = "load" /\ output_file' = output_file)
        /\ wk[t].pc = "store" =>
               /\ processed_urls' = processed_urls + 1
               /\ wk'[t].n = wk[t].n + 1
               /\ wk'[t].pc = IF wk[t].n = Len(thread_list[t]) THEN "ended" ELSE "url"

\* C5: a URL whose processing fails is caught: it adds no line, it still adds
\* one to the processed count, and its worker goes on with the next URL of its
\* chunk; every other URL is expanded.
C5_FailedUrlCounted ==
    [](FailureIsContained) /\ [][\A t \in 1..Len(thread_list) : FailedStep(t)]_vars

\* the parameters of a query string parsed again whose value is {payload}
PayloadKeys(query) ==
    { OriginalParams(query)[n].key :
          n \in { x \in 1..Len(OriginalParams(query)) :
                      OriginalParams(query)[x].val = PAYLOAD } }

\* C6: every line of the output file has exactly one parameter whose value is
\* {payload} when its query string is parsed again, and that parameter is the
\* one the line was written for (its name as URL decoding gives it).
C6_PayloadKeyIsTarget ==
    \A m \in 1..Len(output_file) :
        PayloadKeys(output_file[m].query) = { Decoded(log[m].param) }

\* the names of the non-empty pieces that are a bare name, or a name and '='
FlagsOf(url) ==
    { PieceName(s) : s \in { x \in PieceSet(url) \ {EMPTY} :
                                 x = PieceName(x) \/ x = PieceName(x) \o <<"=">> } }

\* C7: a parameter given with no '=' (flag) or with an empty value (flag=) is
\* kept in the parameter map with the empty string as its value: it gets a
\* line of its own, flag={payload}, and every line written for another
\* parameter of the URL holds it as flag=.
C7_BlankParamKept ==
    /\ \A t \in 1..Len(thread_list) :
           wk[t].pc = "save" =>
               \A f \in FlagsOf(Url(t)) :
                   /\ HasKey(wk[t].params, f)
                   /\ DictGet(wk[t].params, f) = EMPTY
    /\ \A m \in 1..Len(output_file) :
           \A f \in FlagsOf(urls[log[m].pos]) :
               IF log[m].param = f
               THEN (f \o <<"=">> \o PAYLOAD) \in LinePieces(m)
               ELSE (f \o <<"=">>) \in LinePieces(m)
    /\ mpc = "done" =>
           \A p \in Positions :
               Parsed(p) =>
                   \A f \in FlagsOf(urls[p]) :
                       Cardinality({ m \in LinesOf(p) : log[m].param = f }) = 1

\* C7 witness: a URL with a flag and with a parameter that has a value, both
\* expanded
C7_Witness ==
    /\ mpc = "done"
    /\ \E m1, m2 \in 1..Len(output_file) :
           /\ log[m1].pos = log[m2].pos
           /\ log[m1].param \in FlagsOf(urls[log[m1].pos])
           /\ log[m2].param \notin FlagsOf(urls[log[m2].pos])
           /\ log[m2].param # EMPTY

(***************************************************************************)
(* C8.  The occurrences of a name are the pieces of the query string, the  *)
(* empty ones too, whose text before the first '=' is the name.  A piece   *)
(* is blank when it has no '=', or nothing between its first '=' and its   *)
(* next '=' or its end.  A name is plain when it has no '+' and no escape; *)
(* a URL is plain-named when all the names of its pieces are.              *)
(***************************************************************************)
Occurrences(url, nm) == { n \in 1..Len(Pieces(url)) : PieceName(Pieces(url)[n]) = nm }

RepeatedNames(url) ==
    { nm \in { PieceName(s) : s \in PieceSet(url) } : Cardinality(Occurrences(url, nm)) > 1 }

Plain(nm) == \A n \in 1..Len(nm) : nm[n] \notin {"+", "%3D", "%61"}

PlainNamed(url) == \A s \in PieceSet(url) : Plain(PieceName(s))

BlankPiece(s) == Len(Split(s, "=")) = 1 \/ Split(s, "=")[2] = EMPTY

SomeBlank(url, nm) == \E n \in Occurrences(url, nm) : BlankPiece(Pieces(url)[n])

Max(S) == CHOOSE x \in S : \A y \in S : x >= y

LastValue(url, nm) == Decoded(PieceValue(Pieces(url)[Max(Occurrences(url, nm))]))

FirstValue(url, nm) == Decoded(PieceValue(Pieces(url)[Min(Occurrences(url, nm))]))

FirstOrBlankValue(url, nm) == IF SomeBlank(url, nm) THEN EMPTY ELSE FirstValue(url, nm)

EntriesFor(d, k) == { n \in 1..Len(d) : d[n].key = k }

\* C8 as claimed, in the case most in its favour (a plain-named URL, a name
\* none of whose occurrences is blank): a name given more than once has one
\* entry in the parameter map, its value is the value of the last occurrence,
\* and that value is written in every line of the URL that is not for that
\* name.
C8_LastOccurrenceWins ==
    /\ \A t \in 1..Len(thread_list) :
           (wk[t].pc = "save" /\ PlainNamed(Url(t))) =>
               \A nm \in RepeatedNames(Url(t)) :
                   ~SomeBlank(Url(t), nm) =>
                       /\ Cardinality(EntriesFor(wk[t].params, nm)) = 1
                       /\ DictGet(wk[t].params, nm) = LastValue(Url(t), nm)
    /\ \A m \in 1..Len(output_file) :
           PlainNamed(urls[log[m].pos]) =>
               \A nm \in RepeatedNames(urls[log[m].pos]) :
                   (~SomeBlank(urls[log[m].pos], nm) /\ log[m].param # nm) =>
                       (nm \o <<"=">> \o LastValue(urls[log[m].pos], nm)) \in LinePieces(m)

\* C8 as amended: in a plain-named URL, a name given more than once has one
\* entry in the parameter map; its value is the empty string when some
\* occurrence is blank, and else the decoded value of the FIRST occurrence;
\* that value is written in every line of the URL that is not for that name.
C8_FirstOccurrenceOrBlank ==
    /\ \A t \in 1..Len(thread_list) :
           (wk[t].pc = "save" /\ PlainNamed(Url(t))) =>
               \A nm \in RepeatedNames(Url(t)) :
                   /\ Cardinality(EntriesFor(wk[t].params, nm)) = 1
                   /\ DictGet(wk[t].params, nm) = FirstOrBlankValue(Url(t), nm)
    /\ \A m \in 1..Len(output_file) :
           PlainNamed(urls[log[m].pos]) =>
               \A nm \in RepeatedNames(urls[log[m].pos]) :
                   log[m].param # nm =>
                       (nm \o <<"=">> \o FirstOrBlankValue(urls[log[m].pos], nm))
                           \in LinePieces(m)

\* C8 witness: a plain-named URL with a name given twice with two values and
\* no blank occurrence, and a line written for another of its parameters
C8_Witness ==
    \E m \in 1..Len(output_file) :
        \E nm \in RepeatedNames(urls[log[m].pos]) :
            /\ PlainNamed(urls[log[m].pos])
            /\ log[m].param # nm
            /\ ~SomeBlank(urls[log[m].pos], nm)
            /\ LastValue(urls[log[m].pos], nm) # FirstValue(urls[log[m].pos], nm)

\* what C8 as amended would say of every plain name in any URL: it fails,
\* since parse_qs decodes the names it collects (?%61=1&a=P&a=1)
C8_AnyUrl ==
    \A t \in 1..Len(thread_list) :
        wk[t].pc = "save" =>
            \A nm \in RepeatedNames(Url(t)) :
                Plain(nm) =>
                    /\ Cardinality(EntriesFor(wk[t].params, nm)) = 1
                    /\ DictGet(wk[t].params, nm) = FirstOrBlankValue(Url(t), nm)

\* C9 as claimed: process_urls starts at most N + 1 worker threads, and more
\* than N only when the list length is not a multiple of N.
C9_AtMostOneExtraWorker ==
    /\ Len(thread_list) <= threads + 1
    /\ Len(thread_list) > threads => Len(urls) % threads # 0

\* C9 as amended: process_urls starts at most 2N - 1 worker threads, more than
\* N only when the list length is not a multiple of N, and
\* ceil(len(urls) / chunk_size) of them once the loop of line 87 has ended.
C9_WorkerCount ==
    /\ Len(thread_list) <= 2 * threads - 1
    /\ Len(thread_list) > threads => Len(urls) % threads # 0
    /\ mpc \in {"join", "done"} =>
           Len(thread_list) = (Len(urls) + chunk_size - 1) \div chunk_size

\* C9 witness: more than N + 1 workers have been started and joined
C9_Witness ==
    /\ mpc = "done"
    /\ Len(thread_list) > threads + 1

SameChunk(p, q) ==
    \E t \in 1..Len(thread_list) :
        /\ \E n \in 1..Len(thread_list[t]) : thread_list[t][n] = p
        /\ \E n \in 1..Len(thread_list[t]) : thread_list[t][n] = q

\* C10: of two lines written by the same worker, the one written first is for
\* a URL that is not later in the list, under every interleaving with the
\* other workers.
C10_ChunkOrder ==
    \A m, n \in 1..Len(log) :
        (m < n /\ SameChunk(log[m].pos, log[n].pos)) => log[m].pos <= log[n].pos

\* C10 witness: a worker has written for two URLs of its chunk, and another
\* worker has written in between
C10_Witness ==
    \E m, n, o \in 1..Len(log) :
        /\ m < n /\ n < o
        /\ log[m].pos < log[o].pos
        /\ SameChunk(log[m].pos, log[o].pos)
        /\ ~SameChunk(log[m].pos, log[n].pos)

====
